---- MODULE Spec2Model ----
(***************************************************************************)
(* Model of aws_hacks.py: the bootstrap-script formatter make_start_script *)
(* and the two S3 transfer calls download_from_s3 / upload_to_s3, which    *)
(* toggle the process-wide environment variable S3_USE_SIGV4.              *)
(*                                                                         *)
(* Strings are TLA+ strings.  A text that is cut into lines is a sequence  *)
(* of string tokens in which the token "\n" is the line break; a host, on  *)
(* which the code runs a substring test, is a sequence of string tokens.   *)
(***************************************************************************)
EXTENDS Integers, Sequences, FiniteSets, TLC

\* ------------------------------------------------------------------ bounds
MaxSize == 1        \* longest local file / remote object, in bytes
MaxPkgs == 2        \* longest install_pip list
MaxSwap == 2        \* largest integer add_swap_file

\* ------------------------------------------------------------- the values
Threads == {1, 2}
Callers == {1}

Bytes == {0, 1}

RECURSIVE SeqsUpTo(_, _)
SeqsUpTo(S, n) ==
    IF n = 0 THEN {<<>>}
    ELSE LET shorter == SeqsUpTo(S, n - 1)
         IN  shorter \cup {Append(s, e) : s \in {q \in shorter : Len(q) = n - 1}, e \in S}

\* A file or a remote object: absent, or present with its bytes.
Absent == [exists |-> FALSE, data |-> <<>>]
Present(d) == [exists |-> TRUE, data |-> d]
Contents == {Absent} \cup {Present(d) : d \in SeqsUpTo(Bytes, MaxSize)}

\* The values a caller passes as host: None, the boto sentinel object
\* NoHostProvided, or a string (cut into tokens around the region name).
HostNone == [kind |-> "None", s |-> <<>>]
NoHostProvided == [kind |-> "NoHostProvided", s |-> <<>>]
HostStr(s) == [kind |-> "str", s |-> s]
DownloadDefaultHost == HostStr(<<"s3", ".", "amazonaws.com">>)
UploadDefaultHost == HostStr(<<"s3", ".", "eu-central", "-1", ".", "amazonaws.com">>)
Hosts == {HostNone, NoHostProvided, DownloadDefaultHost, UploadDefaultHost}

\* 'eu-central' in host
InHost(marker, h) == \E i \in 1..Len(h.s) : h.s[i] = marker

\* what set_contents_from_file reports when it reports no number
NoneVal == -1

VARIABLES
    environ,            \* os.environ, restricted to the names the module touches
    store,              \* the remote object under (bucket, key)
    fs,                 \* the local file fname
    pc,                 \* per thread: the statement the thread executes next
    fn,                 \* per thread: the function being called
    host,               \* per thread: argument host
    dry_run,            \* per thread: argument dry_run
    switch_validation,  \* per thread: local switch_validation
    out,                \* per thread: local out (download)
    size,               \* per thread: local size (upload)
    sent,               \* per thread: local sent (upload)
    ret,                \* per thread: the value returned to the caller
    hazard,             \* history: kinds of flag/host disagreement seen so far
    args,               \* the arguments of make_start_script
    script              \* the string make_start_script returned

transferVars == <<environ, store, fs, pc, fn, host, dry_run, switch_validation,
                  out, size, sent, ret>>
scriptVars == <<args, script>>
vars == <<environ, store, fs, pc, fn, host, dry_run, switch_validation,
          out, size, sent, ret, hazard, args, script>>

FlagSet == "S3_USE_SIGV4" \in DOMAIN environ
SetFlag(env) == [n \in DOMAIN env \cup {"S3_USE_SIGV4"} |->
                    IF n = "S3_USE_SIGV4" THEN "True" ELSE env[n]]
DelFlag(env) == [n \in DOMAIN env \ {"S3_USE_SIGV4"} |-> env[n]]
EmptyEnviron == [n \in {} |-> "True"]


\* --------------------------------------------------------- the call sites
Finished(t) == pc[t] \in {"idle", "returned", "raised"}

\* The caller invokes download_from_s3(..., dry_run=d, host=h).
call_download(t, h, d) ==
    /\ Finished(t)
    /\ pc' = [pc EXCEPT ![t] = "d_entry"]
    /\ fn' = [fn EXCEPT ![t] = "download_from_s3"]
    /\ host' = [host EXCEPT ![t] = h]
    /\ dry_run' = [dry_run EXCEPT ![t] = d]
    /\ switch_validation' = [switch_validation EXCEPT ![t] = FALSE]
    /\ out' = [out EXCEPT ![t] = FALSE]
    /\ size' = [size EXCEPT ![t] = 0]
    /\ sent' = [sent EXCEPT ![t] = NoneVal]
    /\ ret' = [ret EXCEPT ![t] = "none"]
    /\ UNCHANGED <<environ, store, fs>>

\* The caller invokes upload_to_s3(..., host=h).
call_upload(t, h) ==
    /\ Finished(t)
    /\ pc' = [pc EXCEPT ![t] = "u_entry"]
    /\ fn' = [fn EXCEPT ![t] = "upload_to_s3"]
    /\ host' = [host EXCEPT ![t] = h]
    /\ dry_run' = [dry_run EXCEPT ![t] = FALSE]
    /\ switch_validation' = [switch_validation EXCEPT ![t] = FALSE]
    /\ out' = [out EXCEPT ![t] = FALSE]
    /\ size' = [size EXCEPT ![t] = 0]
    /\ sent' = [sent EXCEPT ![t] = NoneVal]
    /\ ret' = [ret EXCEPT ![t] = "none"]
    /\ UNCHANGED <<environ, store, fs>>

\* An error of the store client, of open() or of del propagates to the
\* caller: the frame is left at once, nothing after the statement runs.
Raise(t) == pc' = [pc EXCEPT ![t] = "raised"]

Goto(t, label) == pc' = [pc EXCEPT ![t] = label]

\* ------------------------------------------------------- download_from_s3
\* download_switches with the region test lost: every host string switches.
download_switches_any(h) ==
    /\ h.kind # "None"
    /\ h.kind # "NoHostProvided"

\* if host is not None and not isinstance(host, NoHostProvided):
\*     if 'eu-central' in host:
download_switches(h) ==
    /\ h.kind # "None"
    /\ h.kind # "NoHostProvided"
    /\ InHost("eu-central", h)

d_entry(t) ==
    /\ pc[t] = "d_entry"
    /\ IF download_switches(host[t])
       THEN /\ switch_validation' = [switch_validation EXCEPT ![t] = TRUE]
            /\ environ' = SetFlag(environ)
       ELSE /\ switch_validation' = [switch_validation EXCEPT ![t] = FALSE]
            /\ environ' = environ
    /\ Goto(t, "d_connect")
    /\ UNCHANGED <<store, fs, fn, host, dry_run, out, size, sent, ret>>

\* com = boto.connect_s3(...)
d_connect(t) ==
    /\ pc[t] = "d_connect"
    /\ \/ Goto(t, "d_get_bucket")
       \/ Raise(t)
    /\ UNCHANGED <<environ, store, fs, fn, host, dry_run, switch_validation,
                   out, size, sent, ret>>

\* bucket = com.get_bucket(bucket, validate=False); my_key = Key(bucket);
\* my_key.key = key; out = False
d_get_bucket(t) ==
    /\ pc[t] = "d_get_bucket"
    /\ \/ /\ Goto(t, "d_exists")
          /\ out' = [out EXCEPT ![t] = FALSE]
       \/ /\ Raise(t)
          /\ out' = out
    /\ UNCHANGED <<environ, store, fs, fn, host, dry_run, switch_validation,
                   size, sent, ret>>

\* d_exists with the dry_run test lost: an existing key is always fetched.
d_exists_ignores_dry_run(t) ==
    /\ pc[t] = "d_exists"
    /\ \/ /\ store.exists
          /\ Goto(t, "d_get_key")
          /\ UNCHANGED <<out, ret>>
       \/ /\ ~store.exists
          /\ Goto(t, "d_cleanup")
          /\ out' = [out EXCEPT ![t] = FALSE]
          /\ ret' = ret
       \/ /\ Raise(t)
          /\ UNCHANGED <<out, ret>>
    /\ UNCHANGED <<environ, store, fs, fn, host, dry_run, switch_validation,
                   size, sent>>

\* if my_key.exists(): if not dry_run: ... else: return True
\* else: print(...); out = False
d_exists(t) ==
    /\ pc[t] = "d_exists"
    /\ \/ /\ store.exists
          /\ ~dry_run[t]
          /\ Goto(t, "d_get_key")
          /\ UNCHANGED <<out, ret>>
       \/ /\ store.exists
          /\ dry_run[t]
          /\ Goto(t, "returned")
          /\ ret' = [ret EXCEPT ![t] = "True"]
          /\ out' = out
       \/ /\ ~store.exists
          /\ Goto(t, "d_cleanup")
          /\ out' = [out EXCEPT ![t] = FALSE]
          /\ ret' = ret
       \/ /\ Raise(t)
          /\ UNCHANGED <<out, ret>>
    /\ UNCHANGED <<environ, store, fs, fn, host, dry_run, switch_validation,
                   size, sent>>

\* s3fid = bucket.get_key(key)
d_get_key(t) ==
    /\ pc[t] = "d_get_key"
    /\ \/ Goto(t, "d_fetch")
       \/ Raise(t)
    /\ UNCHANGED <<environ, store, fs, fn, host, dry_run, switch_validation,
                   out, size, sent, ret>>

\* s3fid.get_contents_to_filename(fname); out = True
\* A failed fetch leaves the destination untouched or removes it.
d_fetch(t) ==
    /\ pc[t] = "d_fetch"
    /\ \/ /\ fs' = Present(store.data)
          /\ out' = [out EXCEPT ![t] = TRUE]
          /\ Goto(t, "d_cleanup")
       \/ /\ fs' \in {fs, Absent}
          /\ out' = out
          /\ Raise(t)
    /\ UNCHANGED <<environ, store, fn, host, dry_run, switch_validation,
                   size, sent, ret>>

\* if switch_validation: del os.environ['S3_USE_SIGV4']
\* return out
d_cleanup(t) ==
    /\ pc[t] = "d_cleanup"
    /\ IF switch_validation[t]
       THEN IF FlagSet
            THEN /\ environ' = DelFlag(environ)
                 /\ Goto(t, "returned")
                 /\ ret' = [ret EXCEPT ![t] = IF out[t] THEN "True" ELSE "False"]
            ELSE /\ Raise(t)          \* KeyError
                 /\ UNCHANGED <<environ, ret>>
       ELSE /\ environ' = environ
            /\ Goto(t, "returned")
            /\ ret' = [ret EXCEPT ![t] = IF out[t] THEN "True" ELSE "False"]
    /\ UNCHANGED <<store, fs, fn, host, dry_run, switch_validation,
                   out, size, sent>>

\* ----------------------------------------------------------- upload_to_s3
\* upload_switches with == in place of in.
upload_switches_equal(h) ==
    /\ h.kind # "None"
    /\ h.s = <<"eu-central">>

\* if host is not None: if 'eu-central' in host:
upload_switches(h) ==
    /\ h.kind # "None"
    /\ InHost("eu-central", h)

\* 'eu-central' in host raises TypeError on the NoHostProvided object.
u_entry(t) ==
    /\ pc[t] = "u_entry"
    /\ IF host[t].kind = "NoHostProvided"
       THEN /\ Raise(t)
            /\ UNCHANGED <<switch_validation, environ>>
       ELSE /\ Goto(t, "u_connect")
            /\ IF upload_switches(host[t])
               THEN /\ switch_validation' = [switch_validation EXCEPT ![t] = TRUE]
                    /\ environ' = SetFlag(environ)
               ELSE /\ switch_validation' = [switch_validation EXCEPT ![t] = FALSE]
                    /\ environ' = environ
    /\ UNCHANGED <<store, fs, fn, host, dry_run, out, size, sent, ret>>

\* com = boto.connect_s3(...)
u_connect(t) ==
    /\ pc[t] = "u_connect"
    /\ \/ Goto(t, "u_get_bucket")
       \/ Raise(t)
    /\ UNCHANGED <<environ, store, fs, fn, host, dry_run, switch_validation,
                   out, size, sent, ret>>

\* bucket = com.get_bucket(bucket, validate=True); s3_key = Key(bucket);
\* s3_key.key = key; optional Content-Type metadata on the local key object
u_get_bucket(t) ==
    /\ pc[t] = "u_get_bucket"
    /\ \/ Goto(t, "u_open")
       \/ Raise(t)
    /\ UNCHANGED <<environ, store, fs, fn, host, dry_run, switch_validation,
                   out, size, sent, ret>>

\* with open(fname) as fid:      (IOError when the file does not exist)
u_open(t) ==
    /\ pc[t] = "u_open"
    /\ IF fs.exists THEN Goto(t, "u_size") ELSE Raise(t)
    /\ UNCHANGED <<environ, store, fs, fn, host, dry_run, switch_validation,
                   out, size, sent, ret>>

\* try: size = os.fstat(fname.fileno()).st_size
\* except: fid.seek(0, os.SEEK_END); size = fid.tell()
\* fname is the path given to open(); it has no fileno(), the attribute
\* lookup raises and the bare except takes the seek-based measurement.
\* measured_size with the seek to the end lost: tell() at the start.
measured_size_no_seek(f) == 0

measured_size(f) == Len(f.data)

u_size(t) ==
    /\ pc[t] = "u_size"
    /\ size' = [size EXCEPT ![t] = measured_size(fs)]
    /\ Goto(t, "u_transfer")
    /\ UNCHANGED <<environ, store, fs, fn, host, dry_run, switch_validation,
                   out, sent, ret>>

\* sent = s3_key.set_contents_from_file(fid, ..., rewind=True); fid.seek(0)
\* The client reports a byte count (or no number); the object then holds
\* the bytes that went over the wire.
Prefix(d, n) == SubSeq(d, 1, IF n < Len(d) THEN n ELSE Len(d))

u_transfer(t) ==
    /\ pc[t] = "u_transfer"
    /\ \/ \E n \in 0..MaxSize :
             /\ sent' = [sent EXCEPT ![t] = n]
             /\ store' = Present(Prefix(fs.data, n))
             /\ Goto(t, "u_cleanup")
       \/ /\ sent' = [sent EXCEPT ![t] = NoneVal]
          /\ store' = store
          /\ Goto(t, "u_cleanup")
       \/ /\ Raise(t)
          /\ UNCHANGED <<sent, store>>
    /\ UNCHANGED <<environ, fs, fn, host, dry_run, switch_validation,
                   out, size, ret>>

\* if sent == size: return True
\* return False
upload_result(s, sz) == IF s = sz THEN "True" ELSE "False"

\* if switch_validation: del os.environ['S3_USE_SIGV4']; then the return
u_cleanup(t) ==
    /\ pc[t] = "u_cleanup"
    /\ IF switch_validation[t]
       THEN IF FlagSet
            THEN /\ environ' = DelFlag(environ)
                 /\ Goto(t, "returned")
                 /\ ret' = [ret EXCEPT ![t] = upload_result(sent[t], size[t])]
            ELSE /\ Raise(t)          \* KeyError
                 /\ UNCHANGED <<environ, ret>>
       ELSE /\ environ' = environ
            /\ Goto(t, "returned")
            /\ ret' = [ret EXCEPT ![t] = upload_result(sent[t], size[t])]
    /\ UNCHANGED <<store, fs, fn, host, dry_run, switch_validation,
                   out, size, sent>>


\* ------------------------------------------------------ make_start_script
NL == "\n"

\* A template is a sequence of pieces: literal text, a line break, or a
\* replacement field {name}.
Lit(text) == [k |-> "lit", v |-> text]
Fld(name) == [k |-> "fld", v |-> name]
Brk == [k |-> "lit", v |-> NL]

\* _base_cmd_tmp with cmd run before the pull.
_base_cmd_tmp_cmd_first == <<
    Lit("#!/bin/bash"), Brk,
    Lit("echo \"updating code ...\""), Brk,
    Lit("source /home/ubuntu/.bashrc"), Brk,
    Lit("source /home/ubuntu/"), Fld("anaconda_path"), Lit("/bin/activate "), Fld("env"), Brk,
    Fld("install_pip"), Brk,
    Fld("swapfile_cmd"), Brk,
    Lit("(cd /home/ubuntu/github/"), Fld("repo"), Lit(" \\"), Brk,
    Lit("  && "), Fld("cmd"), Lit(" \\"), Brk,
    Lit("  && git pull origin master \\"), Brk,
    Lit("  && echo \"updating code ... done\")"), Brk >>

_base_cmd_tmp == <<
    Lit("#!/bin/bash"), Brk,
    Lit("echo \"updating code ...\""), Brk,
    Lit("source /home/ubuntu/.bashrc"), Brk,
    Lit("source /home/ubuntu/"), Fld("anaconda_path"), Lit("/bin/activate "), Fld("env"), Brk,
    Fld("install_pip"), Brk,
    Fld("swapfile_cmd"), Brk,
    Lit("(cd /home/ubuntu/github/"), Fld("repo"), Lit(" \\"), Brk,
    Lit("  && git pull origin master \\"), Brk,
    Lit("  && echo \"updating code ... done\" \\"), Brk,
    Lit("  && "), Fld("cmd"), Lit(")"), Brk >>

_base_swap_tmp == <<
    Lit("echo \"making swap file ...\""), Brk,
    Lit("sudo chown ubuntu /mnt"), Brk,
    Lit("sudo dd if=/dev/zero of=/mnt/swapfile bs=1M count="), Fld("add_swap_file"), Brk,
    Lit("sudo chown root:root /mnt/swapfile"), Brk,
    Lit("sudo chmod 600 /mnt/swapfile"), Brk,
    Lit("sudo mkswap /mnt/swapfile"), Brk,
    Lit("sudo swapon /mnt/swapfile"), Brk,
    Lit("echo \"/mnt/swapfile swap swap defaults 0 0\" | sudo tee -a /etc/fstab"), Brk,
    Lit("sudo swapon -a"), Brk,
    Lit("echo \"making swap file ... done\""), Brk >>

_pip_tmp == << Fld("anaconda_path"), Lit("/bin/pip install "), Fld("package") >>

\* str.format: every field is replaced by the text bound to its name (a
\* sequence of tokens), literal text is copied.
RECURSIVE Format(_, _)
Format(tmpl, bind) ==
    IF tmpl = <<>> THEN <<>>
    ELSE LET p == Head(tmpl)
         IN  (IF p.k = "fld" THEN bind[p.v] ELSE <<p.v>>) \o Format(Tail(tmpl), bind)

\* Join with a blank in place of the line break.
RECURSIVE JoinBlank(_)
JoinBlank(parts) ==
    IF parts = <<>> THEN <<>>
    ELSE IF Len(parts) = 1 THEN parts[1]
    ELSE parts[1] \o <<" ">> \o JoinBlank(Tail(parts))

\* '\n'.join(parts)
RECURSIVE Join(_)
Join(parts) ==
    IF parts = <<>> THEN <<>>
    ELSE IF Len(parts) = 1 THEN parts[1]
    ELSE parts[1] \o <<NL>> \o Join(Tail(parts))

\* A bool or an int, as the docstring of add_swap_file allows.
PyBool(b) == [type |-> "bool", b |-> b, n |-> 0]
PyInt(n) == [type |-> "int", b |-> FALSE, n |-> n]

\* Truthy as "is not False": the size 0 counts as a size.
TruthyNotFalse(v) == v.type = "int" \/ v.b

\* if add_swap_file:
Truthy(v) == IF v.type = "bool" THEN v.b ELSE v.n # 0

\* the text '{}'.format(v) gives
PyStr(v) == IF v.type = "bool" THEN (IF v.b THEN "True" ELSE "False") ELSE ToString(v.n)

swapfile_cmd_of(add_swap_file) ==
    IF Truthy(add_swap_file)
    THEN Format(_base_swap_tmp, [add_swap_file |-> <<PyStr(add_swap_file)>>])
    ELSE <<>>

install_pip_of(anaconda_path, install_pip) ==
    IF Len(install_pip) = 0
    THEN <<>>
    ELSE Join([i \in 1..Len(install_pip) |->
                 Format(_pip_tmp, [anaconda_path |-> <<anaconda_path>>,
                                   package |-> <<install_pip[i]>>])])

make_start_script(cmd, repo, anaconda_path, env, install_pip, add_swap_file) ==
    Format(_base_cmd_tmp,
           [anaconda_path |-> <<anaconda_path>>,
            install_pip |-> install_pip_of(anaconda_path, install_pip),
            swapfile_cmd |-> swapfile_cmd_of(add_swap_file),
            repo |-> <<repo>>,
            env |-> <<env>>,
            cmd |-> <<cmd>>])

\* The lines of a text: the tokens between line breaks, glued together.
\* (A text that ends with a line break has an empty last line.)
RECURSIVE LinesFrom(_, _, _)
LinesFrom(text, i, cur) ==
    IF i > Len(text) THEN <<cur>>
    ELSE IF text[i] = NL THEN <<cur>> \o LinesFrom(text, i + 1, "")
    ELSE LinesFrom(text, i + 1, cur \o text[i])

Lines(text) == LinesFrom(text, 1, "")

\* The arguments the checks draw from.
Cmds == {"python train.py", "true"}
Repos == {"myrepo", "r2"}
AnacondaPaths == {"miniconda3", "anaconda"}
Envs == {"py38", "root"}
Packages == {"numpy", "mne"}
PackageLists == SeqsUpTo(Packages, MaxPkgs)
SwapSizes == {PyBool(FALSE), PyBool(TRUE)} \cup {PyInt(n) : n \in 0..MaxSwap}

NoArgs == [cmd |-> "", repo |-> "", anaconda_path |-> "", env |-> "",
           install_pip |-> <<>>, add_swap_file |-> PyBool(FALSE)]
NoScript == <<>>

\* The argument records of a call; leaving out install_pip or
\* add_swap_file passes the defaults () and False.
ArgSets ==
    {[cmd |-> c, repo |-> r, anaconda_path |-> a, env |-> e,
      install_pip |-> p, add_swap_file |-> s] :
        c \in Cmds, r \in Repos, a \in AnacondaPaths, e \in Envs,
        p \in PackageLists, s \in SwapSizes}

\* script = make_start_script(**args)
call_make_start_script ==
    /\ args # NoArgs
    /\ script = NoScript
    /\ script' = make_start_script(args.cmd, args.repo, args.anaconda_path,
                                   args.env, args.install_pip, args.add_swap_file)
    /\ UNCHANGED <<args, transferVars, hazard>>

\* --------------------------------------------------------- specifications
\* 'eu-central' in host, for a host on which the test can be made
RegionHost(h) == h.kind = "str" /\ InHost("eu-central", h)

\* The call of thread t has reached connect_s3 and has not yet left the
\* last statement that uses the connection or the open file.
Talking(t) ==
    pc[t] \in {"d_connect", "d_get_bucket", "d_exists", "d_get_key", "d_fetch",
               "u_connect", "u_get_bucket", "u_open", "u_size", "u_transfer"}

\* The disagreements between the flag and the host of a talking call that
\* the other call produced: the flag of a region call is gone and the other
\* call has returned from a call that had switched it on, or a call on
\* another host finds the flag that the other, unfinished call has set.
Observed ==
    {k \in {"region_call_without_flag", "plain_call_with_flag"} :
        \E t \in Threads :
            /\ Talking(t)
            /\ \/ /\ k = "region_call_without_flag"
                  /\ RegionHost(host[t])
                  /\ ~FlagSet
                  /\ \E u \in Threads \ {t} :
                        pc[u] = "returned" /\ switch_validation[u]
               \/ /\ k = "plain_call_with_flag"
                  /\ ~RegionHost(host[t])
                  /\ FlagSet
                  /\ \E u \in Threads \ {t} :
                        ~Finished(u) /\ switch_validation[u]}

Idle ==
    /\ environ = EmptyEnviron
    /\ pc = [t \in Threads |-> "idle"]
    /\ fn = [t \in Threads |-> "none"]
    /\ host = [t \in Threads |-> HostNone]
    /\ dry_run = [t \in Threads |-> FALSE]
    /\ switch_validation = [t \in Threads |-> FALSE]
    /\ out = [t \in Threads |-> FALSE]
    /\ size = [t \in Threads |-> 0]
    /\ sent = [t \in Threads |-> NoneVal]
    /\ ret = [t \in Threads |-> "none"]
    /\ hazard = {}

Init ==
    /\ Idle
    /\ store \in Contents
    /\ fs \in Contents
    /\ args = NoArgs
    /\ script = NoScript

\* One caller: a call starts only after the previous one has been left.
Next ==
    /\ \E t \in Callers :
          \/ \E h \in Hosts, d \in BOOLEAN : call_download(t, h, d)
          \/ \E h \in Hosts : call_upload(t, h)
          \/ d_entry(t)
          \/ d_connect(t)
          \/ d_get_bucket(t)
          \/ d_exists(t)
          \/ d_get_key(t)
          \/ d_fetch(t)
          \/ d_cleanup(t)
          \/ u_entry(t)
          \/ u_connect(t)
          \/ u_get_bucket(t)
          \/ u_open(t)
          \/ u_size(t)
          \/ u_transfer(t)
          \/ u_cleanup(t)
    /\ UNCHANGED <<hazard, args, script>>

Spec == Init /\ [][Next]_vars

\* Two callers on one process environment, their calls overlapping freely.
NextConc ==
    /\ \E t \in Threads :
          \/ \E h \in Hosts, d \in BOOLEAN : call_download(t, h, d)
          \/ \E h \in Hosts : call_upload(t, h)
          \/ d_entry(t)
          \/ d_connect(t)
          \/ d_get_bucket(t)
          \/ d_exists(t)
          \/ d_get_key(t)
          \/ d_fetch(t)
          \/ d_cleanup(t)
          \/ u_entry(t)
          \/ u_connect(t)
          \/ u_get_bucket(t)
          \/ u_open(t)
          \/ u_size(t)
          \/ u_transfer(t)
          \/ u_cleanup(t)
    /\ hazard' = hazard \cup Observed'
    /\ UNCHANGED <<args, script>>

\* The overlapping callers work on empty or missing files and objects.
InitConc ==
    /\ Idle
    /\ store \in {Absent, Present(<<>>)}
    /\ fs \in {Absent, Present(<<>>)}
    /\ args = NoArgs
    /\ script = NoScript

SpecConc == InitConc /\ [][NextConc]_vars

\* The script composer alone, called once on each argument record.
InitScript ==
    /\ Idle
    /\ store = Absent
    /\ fs = Absent
    /\ args \in ArgSets
    /\ script = NoScript

NextScript == call_make_start_script

SpecScript == InitScript /\ [][NextScript]_vars

TypeOK ==
    /\ DOMAIN environ \subseteq {"S3_USE_SIGV4"}
    /\ store \in Contents
    /\ fs \in Contents
    /\ \A t \in Threads : sent[t] \in {NoneVal} \cup 0..MaxSize
    /\ \A t \in Threads : size[t] \in 0..MaxSize
    /\ \A t \in Threads : ret[t] \in {"none", "True", "False"}


\* The store client and the file system never fail: the callers of Spec
\* with every statement completing.
NextCalm == Next /\ \A t \in Threads : pc'[t] # "raised"

SpecCalm == Init /\ [][NextCalm]_vars

\* ------------------------------------------------------------- properties
IsDownload(t) == fn[t] = "download_from_s3"
IsUpload(t) == fn[t] = "upload_to_s3"

\* C1: a download_from_s3 call on a host containing 'eu-central' has the
\* flag S3_USE_SIGV4 set while it talks to the store and leaves it unset
\* once it has returned, whatever the outcome (key absent, dry run, fetch).
C1_DownloadFlagTransient ==
    \A t \in Threads :
        (IsDownload(t) /\ RegionHost(host[t])) =>
            /\ Talking(t) => FlagSet
            /\ pc[t] = "returned" => ~FlagSet

\* what holds of a download that has returned
C2_ReturnState ==
    \A t \in Threads :
        (IsDownload(t) /\ pc[t] = "returned") =>
            /\ ret[t] = (IF store.exists THEN "True" ELSE "False")
            /\ (store.exists /\ ~dry_run[t]) => fs = Present(store.data)

\* the only step that changes the destination file
C2_WriteStep ==
    fs' # fs =>
        \E t \in Threads :
            /\ IsDownload(t)
            /\ pc[t] = "d_fetch"
            /\ store.exists
            /\ ~dry_run[t]

\* C2: download_from_s3 returns False exactly when the key is absent and
\* True otherwise; after a return with the key present and no dry run the
\* destination file holds the object's bytes; the destination file changes
\* only in the fetch of a call that found the key and is not a dry run.
C2_DownloadOutcomes == []C2_ReturnState /\ [][C2_WriteStep]_vars

C2_Witness ==
    \E t \in Threads :
        /\ IsDownload(t)
        /\ pc[t] = "returned"
        /\ ret[t] = "True"
        /\ ~dry_run[t]
        /\ store.data # <<>>
        /\ fs = store

\* C3: upload_to_s3 leaves its last statement by returning, never by an
\* exception, and the value is True exactly when the byte count the client
\* reported equals the size of the local file.
C3_UploadResult ==
    [][\A t \in Threads :
          (IsUpload(t) /\ pc[t] = "u_cleanup" /\ pc'[t] # "u_cleanup") =>
              /\ pc'[t] = "returned"
              /\ ret'[t] = (IF sent[t] = Len(fs.data) THEN "True" ELSE "False")]_vars

C3_Witness ==
    \E t \in Threads :
        /\ IsUpload(t)
        /\ pc[t] = "returned"
        /\ ret[t] = "False"
        /\ sent[t] # NoneVal
        /\ sent[t] # Len(fs.data)

\* C4: an upload_to_s3 call on a host containing 'eu-central' has the flag
\* set from before the connection is opened until the transfer is over and
\* has it unset when it has returned, with True or with False.
C4_UploadFlagTransient ==
    \A t \in Threads :
        (IsUpload(t) /\ RegionHost(host[t])) =>
            /\ (Talking(t) \/ pc[t] = "u_cleanup") => FlagSet
            /\ pc[t] = "returned" => (~FlagSet /\ ret[t] \in {"True", "False"})

C4_Witness ==
    \E t \in Threads :
        /\ IsUpload(t)
        /\ RegionHost(host[t])
        /\ pc[t] = "returned"
        /\ ret[t] = "False"
        /\ ~FlagSet

\* C9: a transfer call on a host containing 'eu-central' that is left by a
\* propagating error leaves the flag unset.
C9_FlagUnsetAfterError ==
    \A t \in Threads :
        (pc[t] = "raised" /\ RegionHost(host[t])) => ~FlagSet

\* C10: with one caller and an initially unset flag, a call talks to the
\* store with the flag set exactly when its own host contains 'eu-central'.
C10_FlagMatchesHost ==
    \A t \in Threads :
        Talking(t) => (FlagSet <=> RegionHost(host[t]))

\* C8: with overlapping calls, both disagreements between the flag and the
\* host of a talking call are reached (C8_Witness), and the flag changes
\* under a talking call only by a step of the other call: it is removed
\* only by the exit of another call that had switched it on, and it is set
\* only by the entry of another call whose host contains 'eu-central'.
C8_OnlyTheOtherCall ==
    [][\A t \in Threads :
          (Talking(t) /\ pc'[t] = pc[t]) =>
              /\ (FlagSet /\ ~FlagSet') =>
                    \E u \in Threads \ {t} :
                        /\ ~Finished(u)
                        /\ pc'[u] = "returned"
                        /\ switch_validation[u]
              /\ (~FlagSet /\ FlagSet') =>
                    \E u \in Threads \ {t} :
                        /\ pc[u] \in {"d_entry", "u_entry"}
                        /\ RegionHost(host[u])]_vars

C8_Witness ==
    hazard = {"region_call_without_flag", "plain_call_with_flag"}


\* ------------------------------------------------- properties of the script
Composed == script # NoScript

ScriptLines == Lines(script)

\* the line that opens the repository-pull block
PullLine(repo) == "(cd /home/ubuntu/github/" \o repo \o " \\"

PullIndex == CHOOSE i \in 1..Len(ScriptLines) : ScriptLines[i] = PullLine(args.repo)

\* C5: the first line of the script is the shebang; the script ends with
\* the block "cd into the repository, git pull origin master, completion
\* marker, cmd", the caller's cmd being its last statement, followed by
\* nothing but the final line break.
C5_ShebangFirstCmdLast ==
    Composed =>
        LET L == ScriptLines
            n == Len(ScriptLines)
        IN  /\ n >= 6
            /\ L[1] = "#!/bin/bash"
            /\ L[n - 4] = PullLine(args.repo)
            /\ L[n - 3] = "  && git pull origin master \\"
            /\ L[n - 2] = "  && echo \"updating code ... done\" \\"
            /\ L[n - 1] = "  && " \o args.cmd \o ")"
            /\ L[n] = ""

C5_Witness ==
    /\ Composed
    /\ Len(args.install_pip) > 0
    /\ Truthy(args.add_swap_file)
    /\ ScriptLines[Len(ScriptLines) - 1] = "  && python train.py)"

InstallLine(anaconda_path, package) == anaconda_path \o "/bin/pip install " \o package

IsInstallLine(l) == \E a \in AnacondaPaths, p \in Packages : l = InstallLine(a, p)

\* C6: the install lines of the script are exactly one per package, in
\* list order, each naming the package and the given activation path; they
\* directly follow the environment-activation line and precede the
\* repository-pull block; an empty list gives no install line.
C6_InstallLines ==
    Composed =>
        LET L == ScriptLines
            N == Len(args.install_pip)
        IN  /\ L[4] = "source /home/ubuntu/" \o args.anaconda_path
                        \o "/bin/activate " \o args.env
            /\ {i \in 1..Len(L) : IsInstallLine(L[i])} = 5..(4 + N)
            /\ \A i \in 1..N :
                  L[4 + i] = InstallLine(args.anaconda_path, args.install_pip[i])
            /\ 4 + N < PullIndex

C6_Witness ==
    /\ Composed
    /\ Len(args.install_pip) = 2
    /\ args.install_pip[1] # args.install_pip[2]
    /\ ScriptLines[6] = InstallLine(args.anaconda_path, args.install_pip[2])

\* the swap-provisioning block for a count text
SwapBlock(count) == <<
    "echo \"making swap file ...\"",
    "sudo chown ubuntu /mnt",
    "sudo dd if=/dev/zero of=/mnt/swapfile bs=1M count=" \o count,
    "sudo chown root:root /mnt/swapfile",
    "sudo chmod 600 /mnt/swapfile",
    "sudo mkswap /mnt/swapfile",
    "sudo swapon /mnt/swapfile",
    "echo \"/mnt/swapfile swap swap defaults 0 0\" | sudo tee -a /etc/fstab",
    "sudo swapon -a",
    "echo \"making swap file ... done\"" >>

CountTexts == {"True", "False"} \cup {ToString(n) : n \in 0..MaxSwap}

IsSwapLine(l) == \E c \in CountTexts, j \in 1..10 : l = SwapBlock(c)[j]

\* the decimal numeral of an integer size; a bool is written as its name
SizeText(v) == IF v.type = "int" THEN ToString(v.n) ELSE "True"

\* C7: with add_swap_file False or 0 the script has no line of the swap
\* block; with any other value S it has the whole block exactly once, in
\* order and unbroken, with S as the count of the zero-fill command, before
\* the repository-pull block.
C7_SwapBlock ==
    Composed =>
        LET L == ScriptLines
            S == args.add_swap_file
            swapIdx == {i \in 1..Len(L) : IsSwapLine(L[i])}
        IN  IF S = PyBool(FALSE) \/ S = PyInt(0)
            THEN swapIdx = {}
            ELSE \E k \in 1..Len(L) :
                    /\ swapIdx = k..(k + 9)
                    /\ \A j \in 1..10 : L[k + j - 1] = SwapBlock(SizeText(S))[j]
                    /\ k + 9 < PullIndex

C7_Witness ==
    /\ Composed
    /\ args.add_swap_file = PyInt(2)
    /\ \E i \in 1..Len(ScriptLines) :
          ScriptLines[i] = "sudo dd if=/dev/zero of=/mnt/swapfile bs=1M count=2"

====
